---- MODULE Spec2Model ----
(***************************************************************************)
(* Whisper Clip: the asynchronous orchestration of MainWindow (src/app.py) *)
(* and the external assistant call ask_codex (src/codex_cli_wrapper.py).   *)
(*                                                                         *)
(* The main thread runs one slot at a time, so every slot of MainWindow is *)
(* one atomic action.  A background QThread is an entry of loaders,        *)
(* transcribers or glossary_workers; its completion signal is delivered to *)
(* the main thread as the action of the connected slot.                    *)
(***************************************************************************)
EXTENDS Naturals, Sequences, FiniteSets

VARIABLES
    \* MainWindow fields (app.py 216-231)
    model,                      \* self.model: None, or the name the handle was loaded for
    model_name,                 \* self.model_name
    recording,                  \* self.recording
    frames,                     \* self.frames
    stream,                     \* self.stream: None or an InputStream
    latest_text,                \* self.latest_text
    glossary_enabled,           \* self.glossary_enabled
    glossary_terms,             \* self.glossary_terms
    _pending_glossary_source,   \* self._pending_glossary_source
    _loading_model,             \* self._loading_model
    _pending_model_name,        \* self._pending_model_name
    \* widgets
    record_enabled,             \* record_button.isEnabled()
    record_checked,             \* record_button.isChecked()
    combo_enabled,              \* model_combo.isEnabled()
    combo_text,                 \* model_combo.currentText()
    copy_enabled,               \* copy_button.isEnabled()
    text_area,                  \* text_area.toPlainText()
    status,                     \* status_label.text()
    clipboard,                  \* QApplication.clipboard().text()
    \* background work
    loaders,                    \* ModelLoader threads in flight: their model names
    transcribers,               \* Transcriber threads in flight
    glossary_workers,           \* GlossaryProcessor threads in flight
    leaked,                     \* InputStreams dropped without a successful close
    \* bookkeeping for the properties
    last,                       \* the slot or callback that ran last, with its argument
    issued,                     \* names passed to _on_model_change since the load in flight began
    load_failed,                \* the last settled load of the current name failed
    \* one run of GlossaryProcessor.run / ask_codex
    cx_pc, cx_text, cx_file, cx_runs, cx_last_error, cx_return, cx_signal

ctl == <<model, model_name, recording, frames, stream, latest_text, glossary_enabled,
         glossary_terms, _pending_glossary_source, _loading_model, _pending_model_name>>
widgets == <<record_enabled, record_checked, combo_enabled, combo_text, copy_enabled,
             text_area, status, clipboard>>
threads == <<loaders, transcribers, glossary_workers, leaked>>
book == <<last, issued, load_failed>>
cx == <<cx_pc, cx_text, cx_file, cx_runs, cx_last_error, cx_return, cx_signal>>
win == <<ctl, widgets, threads, book>>
vars == <<win, cx>>

None == "None"

\* app.py 16 and 15
AVAILABLE_MODELS == {"base", "small", "medium", "large"}
DEFAULT_MODEL == "small"

\* Bounds of the model
MaxFrames == 1          \* chunks the audio callback delivers in one recording
MaxGlossary == 2        \* glossary rewrites in flight before another recording starts
MaxLeaked == 1          \* capture streams dropped without a successful close
MaxIssued == 2          \* _on_model_change calls while one load is in flight
MaxTranscribers == 1    \* transcription threads alive before a direct call starts another

\* What a transcription can return (already stripped, app.py 73), and the
\* term lists the glossary can hold (app.py 194-205, 444-458).
Transcripts == {"", "t1", "t2"}
GlossaryChoices == {<<>>, <<"k8s">>}

RemoveAt(s, i) == SubSeq(s, 1, i - 1) \o SubSeq(s, i + 1, Len(s))
\* The entry of last for slot o run with argument a; seen is filled by Settled.
Op(o, a) == [op |-> o, arg |-> a, seen |-> <<>>]
\* The entry of last for a load completion: seen are the names issued while it ran.
Settled(o, a) == [op |-> o, arg |-> a, seen |-> issued]

----------------------------------------------------------------------------
(* Model switching: app.py 498-555 *)

\* _load_model_async guard, line 511
LoadGuard_NoGuard(loading) == FALSE
LoadGuard(loading) == loading

\* _load_model_async (510-532), called with self._loading_model = loading and
\* self.model_name = name; running are the loader threads still in flight.
_load_model_async(loading, name, running) ==
    IF LoadGuard(loading)
    THEN /\ _pending_model_name' = name
         /\ _loading_model' = loading
         /\ loaders' = running
         /\ UNCHANGED <<status, record_enabled, combo_enabled>>
    ELSE /\ status' = "Loading model"
         /\ record_enabled' = FALSE
         /\ combo_enabled' = FALSE
         /\ _loading_model' = TRUE
         /\ _pending_model_name' = None
         /\ loaders' = Append(running, name)

\* The staleness test of a completion, lines 537 and 549
IsStale_Never(name) == FALSE
IsStale(name) == name # model_name

\* record_button.setEnabled(...) of _on_model_error, line 553
ErrorRecordEnabled_True == TRUE
ErrorRecordEnabled == FALSE

\* The test of line 499
RejectWhileRecording_Never == FALSE
RejectWhileRecording == recording

\* _on_model_change (498-508): the slot of model_combo.currentTextChanged
_on_model_change(name) ==
    /\ last' = Op("_on_model_change", name)
    /\ issued' = IF _loading_model THEN Append(issued, name) ELSE <<>>
    /\ IF RejectWhileRecording
       THEN /\ status' = "Stop recording to change the model."
            /\ combo_text' = model_name
            /\ UNCHANGED <<model_name, record_enabled, combo_enabled, _loading_model,
                           _pending_model_name, loaders>>
       ELSE /\ combo_text' = name
            /\ IF name = model_name
               THEN UNCHANGED <<model_name, status, record_enabled, combo_enabled,
                                _loading_model, _pending_model_name, loaders>>
               ELSE /\ model_name' = name
                    /\ _load_model_async(_loading_model, name, loaders)
    /\ UNCHANGED <<model, recording, frames, stream, latest_text, glossary_enabled,
                   glossary_terms, _pending_glossary_source, record_checked, copy_enabled,
                   text_area, clipboard, transcribers, glossary_workers, leaked,
                   load_failed, cx>>

\* The user picks another entry of the enabled selector.
SelectModel ==
    \E name \in AVAILABLE_MODELS :
        /\ combo_enabled
        /\ name # combo_text
        /\ _on_model_change(name)

\* The selection is changed whatever the selector's enabled state
\* (QComboBox.setCurrentText emits currentTextChanged on a change).
SetCurrentText ==
    \E name \in AVAILABLE_MODELS :
        /\ name # combo_text
        /\ Len(issued) < MaxIssued
        /\ _on_model_change(name)

\* What a settled load leaves alone
LoadFrame ==
    UNCHANGED <<model_name, recording, frames, stream, latest_text, glossary_enabled,
                glossary_terms, _pending_glossary_source, record_checked, combo_text,
                copy_enabled, text_area, clipboard, transcribers, glossary_workers,
                leaked, cx>>

\* The stale branch shared by both completions, 537-540 and 549-552
StaleCompletion_NoReload(running) ==
    /\ _loading_model' = FALSE
    /\ loaders' = running
    /\ UNCHANGED <<status, record_enabled, combo_enabled, _pending_model_name>>
    /\ UNCHANGED <<model, load_failed>>
StaleCompletion(running) ==
    /\ IF _pending_model_name # None
       THEN _load_model_async(FALSE, model_name, running)
       ELSE /\ _loading_model' = FALSE
            /\ loaders' = running
            /\ UNCHANGED <<status, record_enabled, combo_enabled, _pending_model_name>>
    /\ UNCHANGED <<model, load_failed>>

\* _on_model_loaded (534-544): loader i emitted loaded(model, model_name)
_on_model_loaded(i) ==
    LET name == loaders[i]
        running == RemoveAt(loaders, i)
    IN  /\ last' = Settled("_on_model_loaded", name)
        /\ issued' = <<>>
        /\ IF IsStale(name)
           THEN StaleCompletion(running)
           ELSE /\ _loading_model' = FALSE
                /\ loaders' = running
                /\ model' = name
                /\ record_enabled' = TRUE
                /\ combo_enabled' = TRUE
                /\ status' = "Ready"
                /\ load_failed' = FALSE
                /\ UNCHANGED _pending_model_name
        /\ LoadFrame

\* _on_model_error (546-555): loader i emitted error(message, model_name)
_on_model_error(i) ==
    LET name == loaders[i]
        running == RemoveAt(loaders, i)
    IN  /\ last' = Settled("_on_model_error", name)
        /\ issued' = <<>>
        /\ IF IsStale(name)
           THEN StaleCompletion(running)
           ELSE /\ _loading_model' = FALSE
                /\ loaders' = running
                /\ record_enabled' = ErrorRecordEnabled
                /\ combo_enabled' = TRUE
                /\ status' = "Model load failed"
                /\ load_failed' = TRUE
                /\ UNCHANGED <<model, _pending_model_name>>
        /\ LoadFrame

ModelLoaded == \E i \in 1..Len(loaders) : _on_model_loaded(i)
ModelError == \E i \in 1..Len(loaders) : _on_model_error(i)

----------------------------------------------------------------------------
(* Recording: app.py 557-614 *)

StartOutcomes == {"ok", "open_raises", "start_raises"}
StopOutcomes == {"ok", "stop_raises", "close_raises"}

RecordFrame ==
    UNCHANGED <<model, model_name, latest_text, glossary_enabled, glossary_terms,
                _pending_glossary_source, _loading_model, _pending_model_name,
                combo_text, copy_enabled, text_area, clipboard, loaders,
                glossary_workers, issued, load_failed, cx>>

\* The test of line 564
NoModel_Never == FALSE
NoModel == model = None

\* self.recording = True stands after stream.start() (577-578): it is reached
\* only when neither call raised.
RecordingAfterStart_Early(outcome) == TRUE
RecordingAfterStart(outcome) == outcome = "ok"

\* _start_recording (563-585).  outcome: sd.InputStream(...) raises, stream.start()
\* raises, or both return.  checked is the button's state after the click.
_start_recording(outcome, checked) ==
    /\ last' = Op("_start_recording", IF model = None THEN "no model" ELSE outcome)
    /\ IF NoModel
       THEN /\ status' = "Model not loaded yet."
            /\ record_checked' = FALSE
            /\ UNCHANGED <<frames, stream, recording, combo_enabled, leaked>>
       ELSE /\ frames' = <<>>
            /\ IF outcome = "open_raises"
               THEN UNCHANGED <<stream, leaked>>
               ELSE /\ stream' = "InputStream"
                    /\ leaked' = IF stream # None THEN leaked + 1 ELSE leaked
            /\ IF outcome = "ok"
               THEN /\ recording' = TRUE
                    /\ combo_enabled' = FALSE
                    /\ status' = "Recording"
                    /\ record_checked' = checked
               ELSE /\ record_checked' = FALSE
                    /\ status' = "Microphone error"
                    /\ recording' = IF RecordingAfterStart(outcome) THEN TRUE ELSE recording
                    /\ UNCHANGED combo_enabled
    /\ UNCHANGED <<record_enabled, transcribers>>
    /\ RecordFrame

\* _start_transcription (616-631)
_start_transcription(audio) ==
    /\ status' = "Transcribing"
    /\ transcribers' = Append(transcribers, [model |-> model, audio |-> audio, phase |-> "run"])

\* Whether the statements after the try/finally of _stop_recording run (593-598):
\* an exception of stop() or close() leaves the slot.
StopCompletes(outcome) == outcome = "ok"

\* record_button.setEnabled(...) of line 588, which stands until
\* _on_worker_finished when a transcription is launched
RecordEnabledAfterStop_True == TRUE
RecordEnabledAfterStop == FALSE

\* _stop_recording (587-608).  outcome: stream.stop() raises, stream.close() raises,
\* or both return.
_stop_recording(outcome) ==
    /\ last' = Op("_stop_recording", IF frames = <<>> THEN "empty" ELSE "audio")
    /\ record_checked' = FALSE
    /\ recording' = FALSE
    /\ stream' = None
    /\ leaked' = IF stream # None /\ outcome # "ok" THEN leaked + 1 ELSE leaked
    /\ IF ~StopCompletes(outcome)
       THEN /\ record_enabled' = RecordEnabledAfterStop
            /\ UNCHANGED <<status, combo_enabled, transcribers>>
       ELSE IF frames = <<>>
            THEN /\ status' = "No audio captured."
                 /\ record_enabled' = TRUE
                 /\ combo_enabled' = TRUE
                 /\ UNCHANGED transcribers
            ELSE /\ record_enabled' = RecordEnabledAfterStop
                 /\ _start_transcription(frames)
                 /\ UNCHANGED combo_enabled
    /\ UNCHANGED frames
    /\ RecordFrame

\* _toggle_recording (557-561): the slot of record_button.clicked.  The click
\* of the checkable button flips its checked state first.
_toggle_recording ==
    IF ~recording
    THEN \E outcome \in StartOutcomes :
            /\ outcome = "ok" \/ model = None \/ leaked < MaxLeaked
            /\ _start_recording(outcome, ~record_checked)
    ELSE \E outcome \in StopOutcomes :
            /\ outcome = "ok" \/ (stream # None /\ leaked < MaxLeaked)
            /\ _stop_recording(outcome)

\* The user clicks the enabled record button.
ToggleRecording ==
    /\ record_enabled
    /\ Len(glossary_workers) < MaxGlossary \/ recording
    /\ _toggle_recording

\* _on_audio (610-614): the device callback of the started stream
_on_audio ==
    /\ stream # None
    /\ recording
    /\ Len(frames) < MaxFrames
    /\ frames' = Append(frames, "chunk")
    /\ last' = Op("_on_audio", "")
    /\ UNCHANGED <<model, model_name, recording, stream, latest_text, glossary_enabled,
                   glossary_terms, _pending_glossary_source, _loading_model,
                   _pending_model_name, widgets, threads, issued, load_failed, cx>>

----------------------------------------------------------------------------
(* Transcription and glossary completions: app.py 633-708 *)

ChainFrame ==
    UNCHANGED <<model, model_name, recording, frames, stream, glossary_enabled,
                glossary_terms, _loading_model, _pending_model_name, record_checked,
                combo_text, loaders, leaked, issued, load_failed, cx>>

\* _start_glossary_processing (660-675)
_start_glossary_processing(text) ==
    /\ status' = "Applying glossary"
    /\ glossary_workers' = Append(glossary_workers, [text |-> text, glossary |-> glossary_terms])

\* The test of line 640
LaunchGlossary_IgnoreTerms(text) == text # "" /\ glossary_enabled
LaunchGlossary(text) == text # "" /\ glossary_enabled /\ glossary_terms # <<>>

\* The clipboard after line 639, which stands before the launch of the rewrite
ClipboardAfterTranscription_Deferred(text) == IF LaunchGlossary(text) THEN clipboard ELSE text
ClipboardAfterTranscription(text) == text

\* _on_transcription_finished (633-649): worker i emitted finished(text, elapsed);
\* its thread is asked to quit (627).
_on_transcription_finished(i, text) ==
    /\ transcribers[i].phase = "run"
    /\ last' = Op("_on_transcription_finished", text)
    /\ transcribers' = [transcribers EXCEPT ![i].phase = "quit"]
    /\ latest_text' = text
    /\ text_area' = text
    /\ copy_enabled' = (text # "")
    /\ clipboard' = ClipboardAfterTranscription(text)
    /\ IF LaunchGlossary(text)
       THEN /\ _pending_glossary_source' = text
            /\ _start_glossary_processing(text)
       ELSE /\ status' = IF text # "" THEN "Done" ELSE "Done, but no speech detected."
            /\ UNCHANGED <<_pending_glossary_source, glossary_workers>>
    /\ UNCHANGED <<record_enabled, combo_enabled>>
    /\ ChainFrame

\* _on_transcription_error (651-654): worker i emitted error(message)
_on_transcription_error(i) ==
    /\ transcribers[i].phase = "run"
    /\ last' = Op("_on_transcription_error", "")
    /\ transcribers' = [transcribers EXCEPT ![i].phase = "quit"]
    /\ status' = "Transcription failed"
    /\ UNCHANGED <<latest_text, text_area, copy_enabled, clipboard,
                   _pending_glossary_source, glossary_workers, record_enabled,
                   combo_enabled>>
    /\ ChainFrame

\* _on_worker_finished (656-658): the slot of worker_thread.finished
_on_worker_finished(i) ==
    /\ transcribers[i].phase = "quit"
    /\ last' = Op("_on_worker_finished", "")
    /\ transcribers' = RemoveAt(transcribers, i)
    /\ record_enabled' = TRUE
    /\ combo_enabled' = TRUE
    /\ UNCHANGED <<latest_text, text_area, copy_enabled, clipboard, status,
                   _pending_glossary_source, glossary_workers>>
    /\ ChainFrame

TranscriptionFinished ==
    \E i \in 1..Len(transcribers), text \in Transcripts : _on_transcription_finished(i, text)
TranscriptionError == \E i \in 1..Len(transcribers) : _on_transcription_error(i)
WorkerFinished == \E i \in 1..Len(transcribers) : _on_worker_finished(i)

\* str.strip() on the texts of the model (app.py 108, codex_cli_wrapper.py 124-126)
Strip(s) ==
    CASE s = " " -> ""
      [] s = " g1 " -> "g1"
      [] s = " out " -> "out"
      [] s = " err " -> "err"
      [] OTHER -> s

\* GlossaryProcessor.run, lines 108-112: the text emitted with finished for the
\* value ask_codex returned
Cleaned(text, result) ==
    LET cleaned == Strip(result)
    IN  IF cleaned = "" THEN text ELSE cleaned

\* The fallback of _on_glossary_error, line 694
Fallback == IF _pending_glossary_source # "" THEN _pending_glossary_source ELSE latest_text

\* _on_glossary_finished (677-690): worker i emitted finished(text, elapsed)
_on_glossary_finished(i, text) ==
    /\ last' = Op("_on_glossary_finished", glossary_workers[i].text)
    /\ glossary_workers' = RemoveAt(glossary_workers, i)
    /\ _pending_glossary_source' = ""
    /\ latest_text' = text
    /\ text_area' = text
    /\ copy_enabled' = (text # "")
    /\ clipboard' = text
    /\ status' = IF text # "" THEN "Done" ELSE "Glossary applied, but no text returned."
    /\ UNCHANGED <<record_enabled, combo_enabled, transcribers>>
    /\ ChainFrame

\* _on_glossary_error (692-701): worker i emitted error(message)
_on_glossary_error(i) ==
    /\ last' = Op("_on_glossary_error", glossary_workers[i].text)
    /\ glossary_workers' = RemoveAt(glossary_workers, i)
    /\ _pending_glossary_source' = ""
    /\ IF Fallback # ""
       THEN /\ latest_text' = Fallback
            /\ text_area' = Fallback
            /\ clipboard' = Fallback
       ELSE UNCHANGED <<latest_text, text_area, clipboard>>
    /\ status' = "Glossary failed"
    /\ UNCHANGED <<copy_enabled, record_enabled, combo_enabled, transcribers>>
    /\ ChainFrame

\* The assistant's answers a rewrite of text can come back with
Answers(text) == {" g1 ", text}

GlossaryFinished ==
    \E i \in 1..Len(glossary_workers) :
        \E result \in Answers(glossary_workers[i].text) :
            _on_glossary_finished(i, Cleaned(glossary_workers[i].text, result))
GlossaryError == \E i \in 1..Len(glossary_workers) : _on_glossary_error(i)

\* _copy_latest (703-708): the slot of copy_button.clicked
NothingToCopy_Never == FALSE
NothingToCopy == latest_text = ""
_copy_latest ==
    /\ last' = Op("_copy_latest", latest_text)
    /\ IF NothingToCopy
       THEN UNCHANGED <<clipboard, status>>
       ELSE /\ clipboard' = latest_text
            /\ status' = "Copied latest text to clipboard."
    /\ UNCHANGED <<ctl, record_enabled, record_checked, combo_enabled, combo_text,
                   copy_enabled, text_area, threads, issued, load_failed, cx>>

CopyLatest == copy_enabled /\ _copy_latest

\* _toggle_glossary (476-483): the slot of glossary_toggle_action.toggled
_toggle_glossary(enabled) ==
    /\ last' = Op("_toggle_glossary", IF enabled THEN "on" ELSE "off")
    /\ glossary_enabled' = enabled
    /\ status' = IF enabled /\ glossary_terms = <<>> THEN "Glossary enabled (no terms yet)."
                 ELSE IF enabled THEN "Glossary enabled."
                 ELSE "Glossary disabled."
    /\ UNCHANGED <<model, model_name, recording, frames, stream, latest_text,
                   glossary_terms, _pending_glossary_source, _loading_model,
                   _pending_model_name, record_enabled, record_checked, combo_enabled,
                   combo_text, copy_enabled, text_area, clipboard, threads, issued,
                   load_failed, cx>>

ToggleGlossary == _toggle_glossary(~glossary_enabled)

\* _open_glossary_dialog (485-496) with the dialog accepted: terms are
\* dialog.get_terms(), saved tells whether _save_glossary returned.
_open_glossary_dialog(terms, saved) ==
    /\ last' = Op("_open_glossary_dialog", IF saved THEN "saved" ELSE "save failed")
    /\ glossary_terms' = terms
    /\ status' = IF glossary_enabled /\ terms = <<>> THEN "Glossary enabled (no terms yet)."
                 ELSE IF glossary_enabled THEN "Glossary updated"
                 ELSE IF ~saved THEN "Glossary save failed"
                 ELSE status
    /\ UNCHANGED <<model, model_name, recording, frames, stream, latest_text,
                   glossary_enabled, _pending_glossary_source, _loading_model,
                   _pending_model_name, record_enabled, record_checked, combo_enabled,
                   combo_text, copy_enabled, text_area, clipboard, threads, issued,
                   load_failed, cx>>

EditGlossary ==
    \E terms \in GlossaryChoices, saved \in BOOLEAN : _open_glossary_dialog(terms, saved)

----------------------------------------------------------------------------
(* One run of GlossaryProcessor.run (app.py 90-114) calling ask_codex    *)
(* (codex_cli_wrapper.py 67-141).  cx_file is the temporary output file: *)
(* "absent", or its contents.                                            *)

Absent == "absent"
NoSignal == [kind |-> "none", text |-> ""]

\* What one subprocess leaves: it raised inside subprocess.run (timeout, OSError)
\* or exited with rc; wrote tells what it did to the output file; out and err
\* are its captured stdout and stderr.
FileWrites == {"keep", "unlink", "", " ", " g1 "}
Runs ==
    [exc : {FALSE}, rc : {0, 1}, wrote : FileWrites, out : {"", " ", " out "},
     err : {"", " ", " err "}]
    \cup [exc : {TRUE}, rc : {1}, wrote : FileWrites, out : {""}, err : {""}]

Written(file, wrote) ==
    CASE wrote = "keep" -> file
      [] wrote = "unlink" -> Absent
      [] OTHER -> wrote

\* Lines 128-133: the value an attempt returns, or None when it falls through
\* to last_error.
AttemptValue_AnyExit(run, file) ==
    LET file_output == Strip(file)
        output == Strip(run.out)
        err == Strip(run.err)
    IN  IF file_output # "" THEN file_output
        ELSE IF output # "" THEN output
        ELSE IF err # "" THEN err
        ELSE None
AttemptValue(run, file) ==
    LET file_output == Strip(file)
        output == Strip(run.out)
        err == Strip(run.err)
    IN  IF run.rc = 0 /\ file_output # "" THEN file_output
        ELSE IF run.rc = 0 /\ output # "" THEN output
        ELSE IF run.rc = 0 /\ err # "" THEN err
        ELSE None

CxFrame == UNCHANGED win

\* run() up to the first attempt: the prompt is built (94-106), ask_codex checks
\* the query (75), resolves the command (78-79, which raises when no executable
\* is found) and creates the output file (83-84).
GP_Start ==
    /\ cx_pc = "start"
    /\ \E resolved \in BOOLEAN :
        IF resolved
        THEN /\ cx_pc' = "attempt"
             /\ cx_file' = ""
             /\ UNCHANGED <<cx_signal, cx_last_error>>
        ELSE /\ cx_pc' = "done"
             /\ cx_signal' = [kind |-> "error", text |-> "not found"]
             /\ UNCHANGED cx_last_error
             /\ UNCHANGED cx_file
    /\ UNCHANGED <<cx_text, cx_runs, cx_return>>
    /\ CxFrame

\* Where the loop goes after attempt n was recorded as last_error (120-122,
\* 135-137): on to the next entry of attempts, or out of the loop after the second.
AfterFailure_NoRetry(n) == "exhausted"
AfterFailure(n) == IF n = 2 THEN "exhausted" ELSE "attempt"

\* One iteration of the loop over attempts (107-137)
CX_Attempt ==
    /\ cx_pc = "attempt"
    /\ \E run \in Runs :
        LET file == Written(cx_file, run.wrote)
            value == AttemptValue(run, file)
            n == Len(cx_runs) + 1
        IN  /\ cx_runs' = Append(cx_runs, run)
            /\ cx_file' = file
            /\ IF run.exc
               THEN /\ cx_last_error' = "exception"
                    /\ cx_pc' = AfterFailure(n)
                    /\ UNCHANGED cx_return
               ELSE IF file = Absent
               THEN /\ cx_pc' = "raised"
                    /\ UNCHANGED <<cx_last_error, cx_return>>
               ELSE IF value # None
               THEN /\ cx_pc' = "returning"
                    /\ cx_return' = value
                    /\ UNCHANGED cx_last_error
               ELSE /\ cx_last_error' = "command failed"
                    /\ cx_pc' = AfterFailure(n)
                    /\ UNCHANGED cx_return
    /\ UNCHANGED <<cx_text, cx_signal>>
    /\ CxFrame

\* The finally clause (138-139), then ask_codex returns or raises (129-133,
\* 141) and run() emits finished or error (108-114).
\* The output file after the call: Path(output_path).unlink(missing_ok=True)
\* stands in the finally clause, so every way out of the loop passes it.
FileAfterCall_UnlinkAfterLoop(pc) == IF pc = "exhausted" THEN Absent ELSE cx_file
FileAfterCall(pc) == Absent

CX_Finally ==
    /\ cx_pc \in {"returning", "raised", "exhausted"}
    /\ cx_file' = FileAfterCall(cx_pc)
    /\ cx_pc' = "done"
    /\ cx_signal' = IF cx_pc = "returning"
                    THEN [kind |-> "finished", text |-> Cleaned(cx_text, cx_return)]
                    ELSE IF cx_pc = "exhausted"
                    THEN [kind |-> "error", text |-> cx_last_error]
                    ELSE [kind |-> "error", text |-> "read failed"]
    /\ UNCHANGED <<cx_text, cx_runs, cx_last_error, cx_return>>
    /\ CxFrame

----------------------------------------------------------------------------
(* Specifications *)

\* MainWindow.__init__ (209-235): the fields, _build_ui, _load_glossary and the
\* first _load_model_async
InitWin ==
    /\ model = None
    /\ model_name = DEFAULT_MODEL
    /\ recording = FALSE
    /\ frames = <<>>
    /\ stream = None
    /\ latest_text = ""
    /\ glossary_enabled = FALSE
    /\ glossary_terms \in GlossaryChoices
    /\ _pending_glossary_source = ""
    /\ _loading_model = TRUE
    /\ _pending_model_name = None
    /\ record_enabled = FALSE
    /\ record_checked = FALSE
    /\ combo_enabled = FALSE
    /\ combo_text = DEFAULT_MODEL
    /\ copy_enabled = FALSE
    /\ text_area = ""
    /\ status = "Loading model"
    /\ clipboard = None
    /\ loaders = <<DEFAULT_MODEL>>
    /\ transcribers = <<>>
    /\ glossary_workers = <<>>
    /\ leaked = 0
    /\ last = Op("__init__", "")
    /\ issued = <<>>
    /\ load_failed = FALSE

\* No rewrite is being traced.
InitCxIdle ==
    /\ cx_pc = "idle"
    /\ cx_text = ""
    /\ cx_file = Absent
    /\ cx_runs = <<>>
    /\ cx_last_error = None
    /\ cx_return = None
    /\ cx_signal = NoSignal

\* GlossaryProcessor(text, glossary, cwd) for a non-empty transcript (640)
InitCx ==
    /\ cx_pc = "start"
    /\ cx_text \in Transcripts \ {""}
    /\ cx_file = Absent
    /\ cx_runs = <<>>
    /\ cx_last_error = None
    /\ cx_return = None
    /\ cx_signal = NoSignal

Init == InitWin /\ InitCxIdle
InitCodex == InitWin /\ InitCx

\* The window driven by its user: every intent goes through an enabled control.
Next ==
    \/ SelectModel
    \/ ModelLoaded
    \/ ModelError
    \/ ToggleRecording
    \/ _on_audio
    \/ TranscriptionFinished
    \/ TranscriptionError
    \/ WorkerFinished
    \/ GlossaryFinished
    \/ GlossaryError
    \/ CopyLatest
    \/ ToggleGlossary
    \/ EditGlossary

Spec == Init /\ [][Next]_vars

\* The model-switch protocol with the selection changed while a load is in flight
NextLoad ==
    \/ SetCurrentText
    \/ ModelLoaded
    \/ ModelError

SpecLoad == Init /\ [][NextLoad]_vars

\* The slots called directly, whatever the enabled state of their controls:
\* the operations of the controller requested at any time, with the glossary
\* left as it was loaded (disabled) and the model the default one.
DirectToggle ==
    /\ Len(transcribers) < MaxTranscribers
    /\ _toggle_recording

\* The selection changed by setCurrentText during a recording (which disables
\* the selector)
SelectWhileRecording ==
    \E name \in AVAILABLE_MODELS :
        /\ recording
        /\ name # combo_text
        /\ Len(issued) < MaxIssued
        /\ _on_model_change(name)

\* _stop_recording called while nothing is being recorded
DirectStop ==
    /\ ~recording
    /\ Len(transcribers) < MaxTranscribers
    /\ \E outcome \in StopOutcomes :
        /\ outcome = "ok" \/ (stream # None /\ leaked < MaxLeaked)
        /\ _stop_recording(outcome)

NextApi ==
    \/ SelectWhileRecording
    \/ ModelLoaded
    \/ ModelError
    \/ DirectToggle
    \/ DirectStop
    \/ _on_audio
    \/ TranscriptionFinished
    \/ TranscriptionError
    \/ WorkerFinished
    \/ _copy_latest

SpecApi == Init /\ [][NextApi]_vars

\* One glossary rewrite, attempt by attempt
NextCodex ==
    \/ GP_Start
    \/ CX_Attempt
    \/ CX_Finally

SpecCodex == InitCodex /\ [][NextCodex]_vars

----------------------------------------------------------------------------
(* Properties *)

Running == {i \in 1..Len(transcribers) : transcribers[i].phase = "run"}
Last(s) == s[Len(s)]

\* C1: from the launch of a transcription until its chain has settled (the
\* transcription and the glossary rewrite it triggers), the record button and
\* the model selector stay disabled; neither is enabled while a rewrite is in
\* flight.
C1_ControlsDisabledUntilChainSettles ==
    (Running # {} \/ glossary_workers # <<>>) => (~record_enabled /\ ~combo_enabled)

\* C2: at most one of model load, recording, transcription and glossary rewrite
\* is active, and never two of the same kind.
C2_AtMostOneActiveTask ==
    Len(loaders) + Cardinality(Running) + Len(glossary_workers)
        + (IF recording THEN 1 ELSE 0) <= 1

\* C3: when a load settles after names were issued while it ran, the load that
\* is started is the one of the last-issued name, and none is started when that
\* name is the settled one.
C3_OnlyLastIssuedNameLoaded ==
    (last.op \in {"_on_model_loaded", "_on_model_error"} /\ last.seen # <<>>)
        => loaders = IF Last(last.seen) = last.arg THEN <<>> ELSE <<Last(last.seen)>>

C3_Witness ==
    /\ last.op \in {"_on_model_loaded", "_on_model_error"}
    /\ Len(last.seen) = 2
    /\ last.seen[1] # last.seen[2]
    /\ last.seen[1] # last.arg
    /\ last.seen[2] # last.arg
    /\ loaders = <<last.seen[2]>>

\* C4: at most one model load is in flight at any time.
C4_OneLoadInFlight ==
    /\ Len(loaders) <= 1
    /\ _loading_model <=> Len(loaders) = 1

C4_Witness ==
    /\ last.op = "_on_model_change"
    /\ Len(issued) = 2
    /\ Len(loaders) = 1
    /\ loaders[1] # model_name

\* C5: a load success is installed only when its name is the current one; a
\* stale success leaves the handle and the record button alone and, when a
\* switch is pending, the load of the pending name starts in the same step.
C5_StaleResultDiscarded ==
    [][ (last'.op = "_on_model_loaded" /\ loaders' # loaders) =>
            /\ model' # model => (last'.arg = model_name /\ model' = last'.arg)
            /\ last'.arg = model_name => model' = last'.arg
            /\ last'.arg # model_name =>
                 /\ model' = model
                 /\ ~record_enabled'
                 /\ _pending_model_name # None =>
                        (loaders' = <<_pending_model_name>> /\ _loading_model') ]_vars

C5_Witness ==
    /\ last.op = "_on_model_loaded"
    /\ last.arg # model_name
    /\ model # None
    /\ model # last.arg
    /\ loaders = <<model_name>>

\* C6: after a load of the current name failed, the record button is disabled
\* until a load of the then-current name succeeds.
C6_RecordDisabledAfterLoadFailure == load_failed => ~record_enabled

C6_Witness ==
    /\ load_failed
    /\ last.op \in {"_on_glossary_finished", "_on_glossary_error"}
    /\ model # None

\* C7: after a load of the current name failed, the model handle is unset.
C7_FailedLoadUnsetsHandle ==
    (last.op = "_on_model_error" /\ last.arg = model_name) => model = None

\* C8: after a glossary rewrite failed, the latest transcript, the displayed
\* text and the clipboard are the transcript that rewrite was started with,
\* which is not empty, and the status is the glossary failure.
C8_GlossaryFailureFallsBack ==
    last.op = "_on_glossary_error" =>
        /\ last.arg # ""
        /\ latest_text = last.arg
        /\ text_area = last.arg
        /\ clipboard = last.arg
        /\ status = "Glossary failed"

\* C9: when every attempt exits with code 0 and leaves the output file, stdout
\* and stderr blank, the rewrite ends with finished carrying the original text.
BlankRun(run) ==
    /\ ~run.exc
    /\ run.rc = 0
    /\ run.wrote \in {"keep", "", " "}
    /\ Strip(run.out) = ""
    /\ Strip(run.err) = ""
C9_BlankAnswerIsNoChange ==
    (cx_pc = "done" /\ cx_runs # <<>> /\ \A k \in 1..Len(cx_runs) : BlankRun(cx_runs[k]))
        => cx_signal = [kind |-> "finished", text |-> cx_text]

\* C10: after _stop_recording ran on a recording with no chunk, no
\* transcription is launched and both controls are enabled, whatever stop()
\* and close() did.
C10_EmptyStopReenablesControls ==
    (last.op = "_stop_recording" /\ last.arg = "empty") =>
        /\ record_enabled
        /\ combo_enabled
        /\ Running = {}

\* C11: no reachable state has every background task settled and recording off
\* with the record button and the model selector both disabled.
C11_NeverSettledWithBothControlsDisabled ==
    ~ /\ loaders = <<>>
      /\ transcribers = <<>>
      /\ glossary_workers = <<>>
      /\ ~recording
      /\ ~record_enabled
      /\ ~combo_enabled

\* C12: when a transcription completes, a glossary rewrite of its text is
\* launched exactly when, in the state the completion arrives in, the glossary
\* is enabled, has a term, and the text is not empty; otherwise no rewrite is
\* launched and the status is Done for a text and 'no speech detected' for none.
C12_GlossaryLaunchedIffEnabledTermsText ==
    [][ (last'.op = "_on_transcription_finished" /\ transcribers' # transcribers) =>
            IF glossary_enabled /\ glossary_terms # <<>> /\ last'.arg # ""
            THEN /\ glossary_workers' =
                        Append(glossary_workers,
                               [text |-> last'.arg, glossary |-> glossary_terms])
                 /\ status' = "Applying glossary"
            ELSE /\ glossary_workers' = glossary_workers
                 /\ status' = IF last'.arg # "" THEN "Done"
                              ELSE "Done, but no speech detected." ]_vars

C12_Witness ==
    /\ last.op = "_on_transcription_finished"
    /\ last.arg # ""
    /\ status = "Applying glossary"
    /\ Len(glossary_workers) = 2
    /\ Last(glossary_workers).text = last.arg

\* C13: right after a transcription completion that started a glossary
\* rewrite, the latest transcript and the clipboard are the raw transcript the
\* rewrite was started with.
C13_ClipboardHoldsRawTranscriptAtLaunch ==
    (last.op = "_on_transcription_finished" /\ status = "Applying glossary") =>
        /\ glossary_workers # <<>>
        /\ Last(glossary_workers).text = last.arg
        /\ latest_text = last.arg
        /\ clipboard = last.arg

C13_Witness ==
    /\ last.op = "_on_transcription_finished"
    /\ status = "Applying glossary"
    /\ clipboard = "t2"
    /\ Len(glossary_workers) = 1

\* C14: _copy_latest never changes the latest transcript; with an empty latest
\* transcript it leaves clipboard and status alone; otherwise the clipboard is
\* the latest transcript after the call, and a second call right after the
\* first leaves the same clipboard content.
C14_CopyLatestIdempotent ==
    [][ last'.op = "_copy_latest" =>
            /\ latest_text' = latest_text
            /\ IF latest_text = ""
               THEN clipboard' = clipboard /\ status' = status
               ELSE clipboard' = latest_text
            /\ last.op = "_copy_latest" => clipboard' = clipboard ]_vars

C14_Witness ==
    /\ last.op = "_copy_latest"
    /\ last.arg = ""
    /\ status = "Transcription failed"

\* C15: a model selection made while recording changes nothing but the status:
\* the current name, the handle, the pending name and the recording flag stay,
\* the selector shows the previous selection again and no load is started.
C15_SelectWhileRecordingRejected ==
    [][ (last'.op = "_on_model_change" /\ recording) =>
            /\ status' = "Stop recording to change the model."
            /\ combo_text' = combo_text
            /\ combo_text' = model_name
            /\ UNCHANGED <<model_name, model, _pending_model_name, _loading_model,
                           recording, loaders, frames, stream, record_enabled,
                           record_checked, combo_enabled, transcribers,
                           latest_text, clipboard>> ]_vars

C15_Witness ==
    /\ last.op = "_on_model_change"
    /\ last.arg # model_name
    /\ recording
    /\ frames # <<>>
    /\ status = "Stop recording to change the model."

\* C16: _start_recording with no model handle leaves the recording flag off,
\* the audio buffer, the capture stream and the selector's enabled state as
\* they were, un-checks the record button and sets the status.
C16_StartWithoutModelFails ==
    [][ (last'.op = "_start_recording" /\ model = None) =>
            /\ ~recording'
            /\ ~record_checked'
            /\ status' = "Model not loaded yet."
            /\ UNCHANGED <<recording, frames, stream, combo_enabled, record_enabled,
                           model, model_name, loaders, transcribers, latest_text,
                           clipboard>> ]_vars

C16_Witness ==
    /\ last.op = "_start_recording"
    /\ last.arg = "no model"
    /\ model = None
    /\ load_failed
    /\ status = "Model not loaded yet."

\* C17: after sd.InputStream(...) or stream.start() raised in _start_recording,
\* the recording flag is off, the record button is un-checked and enabled (the
\* next click starts a recording again), the model selector is enabled and the
\* status is the microphone error.
C17_MicrophoneErrorLeavesIdle ==
    (last.op = "_start_recording" /\ last.arg \in {"open_raises", "start_raises"}) =>
        /\ ~recording
        /\ ~record_checked
        /\ combo_enabled
        /\ status = "Microphone error"
        /\ record_enabled
        /\ model # None

C17_Witness ==
    /\ last.op = "_start_recording"
    /\ last.arg = "start_raises"
    /\ stream # None
    /\ status = "Microphone error"

\* C18: _stop_recording called while nothing is being recorded launches no
\* transcription and leaves the recording flag, the audio buffer, the enabled
\* state of the record button and of the model selector, and the status alone.
C18_StopWhenIdleIsNoOp ==
    [][ (last'.op = "_stop_recording" /\ ~recording) =>
            UNCHANGED <<transcribers, recording, frames, record_enabled,
                        combo_enabled, status>> ]_vars

\* C19: when a call of ask_codex has ended, its temporary output file is gone,
\* whichever way the call ended.
C19_OutputFileRemoved == cx_pc = "done" => cx_file = Absent

C19_Witness ==
    /\ cx_pc = "done"
    /\ Len(cx_runs) = 2
    /\ cx_runs[1].exc
    /\ cx_runs[2].wrote = " g1 "
    /\ cx_signal.kind = "finished"
    /\ cx_file = Absent

\* C20: ask_codex returns from an attempt only when that attempt exited with
\* code 0, and then the first non-empty of the stripped output file, stdout and
\* stderr; when neither of the two attempts yields a value, it raises an error
\* carrying the error captured for the second attempt.
FirstNonEmpty(a, b, c) == IF a # "" THEN a ELSE IF b # "" THEN b ELSE c
FileAtRead(k) ==
    IF k = 1 THEN Written("", cx_runs[1].wrote)
    ELSE Written(Written("", cx_runs[1].wrote), cx_runs[2].wrote)
Yields(k) ==
    /\ ~cx_runs[k].exc
    /\ cx_runs[k].rc = 0
    /\ FirstNonEmpty(Strip(FileAtRead(k)), Strip(cx_runs[k].out), Strip(cx_runs[k].err)) # ""
C20_ValueOnlyFromZeroExit ==
    /\ (cx_pc = "returning" \/ (cx_pc = "done" /\ cx_signal.kind = "finished")) =>
            /\ ~Last(cx_runs).exc
            /\ Last(cx_runs).rc = 0
            /\ cx_return # ""
            /\ cx_return = FirstNonEmpty(Strip(FileAtRead(Len(cx_runs))),
                                         Strip(Last(cx_runs).out),
                                         Strip(Last(cx_runs).err))
    /\ (/\ cx_pc = "done"
        /\ Len(cx_runs) = 2
        /\ ~Yields(1)
        /\ ~Yields(2)
        /\ cx_runs[2].exc \/ FileAtRead(2) # Absent) =>
            cx_signal = [kind |-> "error",
                         text |-> IF cx_runs[2].exc THEN "exception" ELSE "command failed"]

C20_Witness ==
    /\ cx_pc = "done"
    /\ Len(cx_runs) = 2
    /\ cx_runs[1].rc = 1
    /\ Strip(cx_runs[1].out) # ""
    /\ cx_runs[2].rc = 0
    /\ Strip(FileAtRead(2)) = ""
    /\ Strip(cx_runs[2].out) = ""
    /\ cx_return = "err"

\* C21: _stop_recording on an open capture stream releases the handle in every
\* outcome: the stream is closed and self.stream is None when the slot ends.
C21_StreamReleasedOnStop ==
    [][ (last'.op = "_stop_recording" /\ stream # None /\ recording) =>
            /\ stream' = None
            /\ leaked' = leaked ]_vars

\* C22 (as claimed): a second attempt is made only after a first attempt that
\* exited with code 0 and gave no usable output; at most two attempts are made.
ReadFails(k) == ~cx_runs[k].exc /\ FileAtRead(k) = Absent
Returns(k) == ~ReadFails(k) /\ Yields(k)
C22_SecondAttemptOnlyAfterBlankZeroExit ==
    /\ Len(cx_runs) <= 2
    /\ Len(cx_runs) = 2 =>
            /\ ~cx_runs[1].exc
            /\ cx_runs[1].rc = 0
            /\ ~Returns(1)

\* C22 (amended): a second attempt is made exactly when the first attempt gave
\* no value (subprocess.run raised, the exit code was not 0, or every channel
\* was blank) and its output file could be read; at most two attempts are
\* made, and none after an attempt that returned a value.
C22_SecondAttemptAfterAnyFailure ==
    /\ Len(cx_runs) <= 2
    /\ Len(cx_runs) = 2 => (~Returns(1) /\ ~ReadFails(1))
    /\ (Len(cx_runs) = 1 /\ cx_pc # "attempt") => (Returns(1) \/ ReadFails(1))
    /\ cx_pc = "attempt" => \A k \in 1..Len(cx_runs) : ~Returns(k)

C22_Witness ==
    /\ cx_pc = "done"
    /\ Len(cx_runs) = 2
    /\ cx_runs[1].rc = 1
    /\ ~cx_runs[1].exc
    /\ Strip(cx_runs[1].out) # ""
    /\ cx_signal.kind = "finished"

\* C23: with intents dispatched through enabled controls, nothing is being
\* recorded while a transcription thread is alive; a transcription is launched
\* only by _stop_recording, on the buffer as it stands after the recording flag
\* was cleared and stop() and close() returned; and the buffer grows only
\* while recording, with no transcription alive.
C23_CaptureNeverOverlapsTranscription ==
    [][ /\ transcribers' # <<>> => ~recording'
        /\ Len(transcribers') > Len(transcribers) =>
                /\ last'.op = "_stop_recording"
                /\ ~recording'
                /\ stream' = None
                /\ leaked' = leaked
                /\ transcribers' =
                        Append(transcribers,
                               [model |-> model, audio |-> frames, phase |-> "run"])
        /\ Len(frames') > Len(frames) => (recording /\ transcribers = <<>>) ]_vars

C23_Witness ==
    /\ last.op = "_stop_recording"
    /\ last.arg = "audio"
    /\ Running # {}
    /\ ~recording
    /\ glossary_workers # <<>>

\* C24: the copy button is enabled exactly when the latest transcript is not
\* empty.
C24_CopyEnabledIffLatestText == copy_enabled <=> latest_text # ""

\* C25: while the record button is enabled no model load is in flight and the
\* handle is the one loaded for the current model name; every transcription
\* thread was given that handle.
C25_RecordEnabledImpliesCurrentModel ==
    /\ record_enabled =>
            /\ ~_loading_model
            /\ loaders = <<>>
            /\ model # None
            /\ model = model_name
    /\ \A i \in 1..Len(transcribers) :
            /\ transcribers[i].model # None
            /\ transcribers[i].model = model_name

C25_Witness ==
    /\ record_enabled
    /\ model = "base"
    /\ load_failed = FALSE
    /\ last.op = "_on_worker_finished"
    /\ glossary_workers # <<>>

\* C26: once the window has written the clipboard, the clipboard equals the
\* latest transcript and the displayed text.
C26_ClipboardIsLatestText ==
    clipboard # None => (clipboard = latest_text /\ clipboard = text_area)

C26_Witness ==
    /\ last.op = "_on_glossary_error"
    /\ clipboard = "t2"
    /\ last.arg = "t1"
    /\ latest_text = "t2"

\* C27: when a glossary rewrite completes or fails after the latest transcript
\* has moved on from the text the rewrite was started with (a later recording
\* was transcribed meanwhile), it leaves the latest transcript and the
\* clipboard alone.
C27_EarlierRewriteNeverOverwrites ==
    [][ (/\ last'.op \in {"_on_glossary_finished", "_on_glossary_error"}
         /\ Len(glossary_workers') < Len(glossary_workers)
         /\ latest_text # last'.arg) =>
            /\ latest_text' = latest_text
            /\ clipboard' = clipboard ]_vars

\* C28: a value returned from the output file by the second attempt was
\* written to the file by the second attempt.
C28_FileOutputWrittenBySameAttempt ==
    (/\ cx_pc = "returning"
     /\ Len(cx_runs) = 2
     /\ cx_return = Strip(cx_file)) => cx_runs[2].wrote \notin {"keep"}
====
